---- MODULE Spec2Model ----
(***************************************************************************)
(* A model of gemini-mcp-server's request queue                            *)
(* (src/src/gemini_mcp_server/queue_manager.py) and of its sliding-window  *)
(* rate limiter (src/src/gemini_mcp_server/rate_limiter.py).               *)
(*                                                                         *)
(* Time is the value time.time() returns, in seconds.  The clock advances  *)
(* in steps of TickLen seconds; any number of operations may run between   *)
(* two ticks.  All coroutines run on one asyncio event loop, so the code   *)
(* between two suspension points is one atomic action.                     *)
(***************************************************************************)
EXTENDS Integers, Sequences, FiniteSets, TLC

\* ------------------------------------------------------------------ bounds
\* Seconds the clock advances by in one Tick.
TickLen == 20
\* The clock stops advancing once it has reached MaxTime.
MaxTime == 80
\* Largest max_calls / rate_limit_per_minute a limiter is constructed with.
MaxCalls == 2
\* Number of admission calls made on a limiter in one run of SpecRL.
MaxAcquire == 4
\* The time_window values a RateLimiter is constructed with.
TimeWindows == {TickLen, 3 * TickLen}

\* The window of AsyncRequestQueue's limiter ("now - t < 60").
RateWindow == 60

\* The id-less value of Python's None, and the exception min([]) raises.
NoValue == "None"
ValueError == "ValueError"
\* No wait_for_completion call is under way and none has been made.  `timed`
\* is "timeout is not None"; `out` is what the call returned or raised;
\* `polled` is history: the time of the call's last pass through its loop.
NoWaiter ==
    [pc |-> "idle", id |-> 0, timed |-> FALSE, timeout |-> 0, start_time |-> 0,
     polled |-> 0, out |-> NoValue]

VARIABLES
    now,            \* time.time()
    \* ---- the limiter under test (SpecRL)
    lim,            \* which class's limiter the run exercises
    max_calls,      \* RateLimiter.max_calls
    time_window,    \* RateLimiter.time_window
    calls,          \* RateLimiter.calls
    ret,            \* what the last limiter or cancel_request call returned
    admitted,       \* history: the time of every admitted call, oldest first
    nAcquire,       \* history: number of admission calls made
    waited,         \* history: <<time, value, admissions so far>> of the last positive wait_time()
    \* ---- AsyncRequestQueue
    rate_limit_per_minute,
    max_queue_size,
    request_times,  \* AsyncRequestQueue._request_times
    persist_to_db,
    db,             \* the rows of table queued_requests, by id
    next_id,        \* the next uuid4 enqueue draws
    queue,          \* _queue: the PriorityQueue's heap list of (priority, time, request)
    putters,        \* _queue._putters: the suspended put() calls, oldest first
    semaphore,      \* _semaphore: the permits left
    processing,     \* _processing: id -> request
    completed,      \* _completed: id -> request
    functions,      \* _functions: whether the attribute exists, and its keys
    worker_task,    \* _worker_task: "None", or the task "running" or "done"
    shutdown_event, \* _shutdown_event.is_set()
    stopping,       \* a stop() call is suspended in "await self._worker_task"
    wpc,            \* where _worker is suspended
    wake,           \* when the worker's asyncio.sleep(wait_time) ends
    waiter,         \* the wait_for_completion call under way, and its outcome
    \* ---- CircuitBreaker and circuit_breaker_check (SpecCB)
    breaker,        \* the CircuitBreaker object the wrapper consults
    wrapper         \* the calls through circuit_breaker_check's wrapper

rlvars == <<lim, max_calls, time_window, calls, ret, admitted, nAcquire, waited>>
\* what a process restart keeps
keptvars == <<rate_limit_per_minute, max_queue_size, persist_to_db>>
\* the queue object's memory
memvars == <<request_times, queue, putters, semaphore, processing, completed, functions,
             worker_task, shutdown_event, stopping, wpc, wake>>
qvars == <<keptvars, memvars, db, next_id, waiter>>
cbvars == <<breaker, wrapper>>
vars == <<now, rlvars, qvars, cbvars>>

\* ------------------------------------------------------------ pure helpers
\* A dict: a function on the set of its keys.
EmptyMap == [k \in {} |-> 0]
Put(f, key, v) == [k \in DOMAIN f \cup {key} |-> IF k = key THEN v ELSE f[k]]
Del(f, key) == [k \in DOMAIN f \ {key} |-> f[k]]

Min(a, b) == IF a <= b THEN a ELSE b

RECURSIVE SeqMin(_)
\* Python's min() of a non-empty list.
SeqMin(s) ==
    IF Len(s) = 1 THEN s[1] ELSE Min(s[1], SeqMin(Tail(s)))

\* [t for t in ts if now - t < window]
PruneLate(ts, t, window) == SelectSeq(ts, LAMBDA c : t - c <= window)
Prune(ts, t, window) == SelectSeq(ts, LAMBDA c : t - c < window)

\* len(ts) < limit
BelowLimitOrEqual(n, limit) == n <= limit
BelowLimit(n, limit) == n < limit

\* The body of RateLimiter.acquire and of AsyncRequestQueue._check_rate_limit,
\* run under the limiter's lock: the pruned list, with `t` appended when the
\* call is admitted.
Admit(ts, t, window, limit) ==
    LET kept == Prune(ts, t, window)
    IN  IF BelowLimit(Len(kept), limit)
        THEN [times |-> Append(kept, t), ok |-> TRUE]
        ELSE [times |-> kept, ok |-> FALSE]

\* The body of RateLimiter.wait_time: prunes, then None or the time until the
\* oldest call leaves the window; min() of an empty list raises ValueError.
WaitTimeOf(ts, t, window, limit) ==
    LET kept == Prune(ts, t, window)
    IN  IF BelowLimit(Len(kept), limit)
        THEN [times |-> kept, kind |-> NoValue, val |-> 0]
        ELSE IF kept = <<>>
        THEN [times |-> kept, kind |-> ValueError, val |-> 0]
        ELSE [times |-> kept, kind |-> "float",
              val |-> window - (t - SeqMin(kept))]

\* The body of AsyncRequestQueue._get_wait_time: it does not prune.
GetWaitTimeOf(ts, t, limit) ==
    IF BelowLimit(Len(ts), limit) THEN [kind |-> "float", val |-> 0]
    ELSE IF ts = <<>> THEN [kind |-> ValueError, val |-> 0]
    ELSE [kind |-> "float", val |-> RateWindow - (t - SeqMin(ts))]

\* --------------------------------------------------- the breaker's start
\* CircuitBreaker(failure_threshold, timeout, expected_exception) after
\* __init__; last_failure_time is <<>> for None, else <<the time>>.
CircuitBreaker(failure_threshold, timeout, expected_exception) ==
    [failure_threshold |-> failure_threshold, timeout |-> timeout,
     expected_exception |-> expected_exception, failure_count |-> 0,
     last_failure_time |-> <<>>, state |-> "CLOSED"]

\* The module's breaker for Gemini API calls.
gemini_circuit_breaker == CircuitBreaker(3, 300, "Exception")

\* The tasks that call through circuit_breaker_check's wrapper.
Callers == {"a", "b"}

\* No call has been made through the wrapper.  `pc` is where each caller's
\* call stands, `out` how its last call ended; history: `via` is the
\* breaker's state when can_proceed let the call through, `started` the
\* number of calls begun, `invoked` the number of invocations of func,
\* `reopened` the time of the last counted failure that found the breaker
\* HALF_OPEN (<<>> when there was none).
NoCalls ==
    [pc |-> [c \in Callers |-> "idle"], out |-> [c \in Callers |-> NoValue],
     via |-> [c \in Callers |-> NoValue], started |-> 0, invoked |-> 0,
     reopened |-> <<>>]

\* ------------------------------------------------------------------ clock
Tick ==
    /\ now < MaxTime
    /\ now' = now + TickLen

\* A freshly constructed AsyncRequestQueue on an empty database; SpecRL calls
\* only its limiter.
QueueIdle ==
    /\ persist_to_db = FALSE
    /\ max_queue_size = 100
    /\ db = EmptyMap
    /\ next_id = 1
    /\ queue = <<>>
    /\ putters = <<>>
    /\ semaphore = 3
    /\ processing = EmptyMap
    /\ completed = EmptyMap
    /\ functions = [set |-> FALSE, ids |-> {}]
    /\ worker_task = NoValue
    /\ shutdown_event = FALSE
    /\ stopping = FALSE
    /\ wpc = "top"
    /\ wake = 0
    /\ waiter = NoWaiter

\* ------------------------------------------------- SpecRL: limiter calls
InitRL ==
    /\ now = 0
    /\ lim \in {"RateLimiter", "AsyncRequestQueue"}
    /\ \/ /\ lim = "RateLimiter"
          /\ max_calls \in 0..MaxCalls
          /\ time_window \in TimeWindows
          /\ rate_limit_per_minute = 0
       \/ /\ lim = "AsyncRequestQueue"
          /\ rate_limit_per_minute \in 0..MaxCalls
          /\ max_calls = 0
          /\ time_window = RateWindow
    /\ calls = <<>>
    /\ request_times = <<>>
    /\ QueueIdle
    /\ ret = [op |-> "none", arg |-> 0, kind |-> NoValue, val |-> 0]
    /\ admitted = <<>>
    /\ nAcquire = 0
    /\ waited = <<>>
    /\ breaker = gemini_circuit_breaker
    /\ wrapper = NoCalls

\* RateLimiter.acquire
acquire ==
    /\ lim = "RateLimiter"
    /\ nAcquire < MaxAcquire
    /\ LET r == Admit(calls, now, time_window, max_calls)
       IN  /\ calls' = r.times
           /\ ret' = [op |-> "acquire", arg |-> 0, kind |-> "bool",
                         val |-> IF r.ok THEN 1 ELSE 0]
           /\ admitted' = IF r.ok THEN Append(admitted, now) ELSE admitted
    /\ nAcquire' = nAcquire + 1
    /\ UNCHANGED <<now, cbvars, lim, max_calls, time_window, waited, qvars>>

\* RateLimiter.wait_time
wait_time ==
    /\ lim = "RateLimiter"
    /\ LET r == WaitTimeOf(calls, now, time_window, max_calls)
       IN  /\ calls' = r.times
           /\ ret' = [op |-> "wait_time", arg |-> 0, kind |-> r.kind, val |-> r.val]
           /\ waited' = IF r.kind = "float" /\ r.val > 0
                        THEN <<now, r.val, Len(admitted)>> ELSE waited
    /\ UNCHANGED <<now, cbvars, lim, max_calls, time_window, admitted, nAcquire, qvars>>

\* AsyncRequestQueue._check_rate_limit, called on its own
check_rate_limit ==
    /\ lim = "AsyncRequestQueue"
    /\ nAcquire < MaxAcquire
    /\ LET r == Admit(request_times, now, RateWindow, rate_limit_per_minute)
       IN  /\ request_times' = r.times
           /\ ret' = [op |-> "acquire", arg |-> 0, kind |-> "bool",
                         val |-> IF r.ok THEN 1 ELSE 0]
           /\ admitted' = IF r.ok THEN Append(admitted, now) ELSE admitted
    /\ nAcquire' = nAcquire + 1
    /\ UNCHANGED <<now, cbvars, lim, max_calls, time_window, calls, waited, keptvars, queue,
                   putters, semaphore, processing, completed, functions, worker_task,
                   shutdown_event, stopping, wpc, wake, db, next_id, waiter>>

\* AsyncRequestQueue._get_wait_time, called on its own
get_wait_time ==
    /\ lim = "AsyncRequestQueue"
    /\ LET r == GetWaitTimeOf(request_times, now, rate_limit_per_minute)
       IN  ret' = [op |-> "wait_time", arg |-> 0, kind |-> r.kind, val |-> r.val]
    /\ UNCHANGED <<now, cbvars, lim, max_calls, time_window, calls, admitted, nAcquire, waited, qvars>>

TickRL == Tick /\ UNCHANGED <<rlvars, qvars, cbvars>>

NextRL ==
    \/ acquire
    \/ wait_time
    \/ check_rate_limit
    \/ get_wait_time
    \/ TickRL

SpecRL == InitRL /\ [][NextRL]_vars

\* The limiter under test in SpecRL: its list, its limit and its window.
Stamps == IF lim = "RateLimiter" THEN calls ELSE request_times
Limit == IF lim = "RateLimiter" THEN max_calls ELSE rate_limit_per_minute
Window == IF lim = "RateLimiter" THEN time_window ELSE RateWindow

\* ------------------------------------------------- claims on the limiter
\* The admitted calls whose time lies in the window-length interval ending at T.
AdmittedIn(T) ==
    {i \in DOMAIN admitted : admitted[i] <= T /\ T - admitted[i] < Window}

\* C1: whatever the order of the admission calls, no window-length interval
\* (ending at any admission time or now) holds more than max_calls admitted
\* calls; and while all calls so far fall within the first window of an
\* empty limiter, exactly min(N, max_calls) of the N calls were admitted.
C1_WindowNeverExceedsMaxCalls ==
    /\ \A T \in {admitted[i] : i \in DOMAIN admitted} \cup {now} :
           Cardinality(AdmittedIn(T)) <= Limit
    /\ now < Window => Len(admitted) = Min(nAcquire, Limit)

\* More calls than the limit were made at one instant and the limit's worth
\* was admitted.
C1_Witness ==
    /\ Limit = 2
    /\ now = 0
    /\ nAcquire = 4
    /\ Len(admitted) = 2

\* The recorded timestamps younger than the window at time t.
Young(ts, t) == {i \in DOMAIN ts : t - ts[i] < Window}

\* C2: an admission call returns true and appends the current time when
\* fewer than max_calls recorded timestamps are younger than the window; else
\* it returns false and the list holds no new entry; with max_calls = 0 every
\* call is denied.
C2_AdmissionContract ==
    [][nAcquire' # nAcquire =>
        LET young == Cardinality(Young(Stamps, now))
        IN  /\ ret'.op = "acquire"
            /\ IF young < Limit
               THEN /\ ret'.val = 1
                    /\ Len(Stamps') = young + 1
                    /\ Stamps'[Len(Stamps')] = now
               ELSE /\ ret'.val = 0
                    /\ Len(Stamps') = young
                    /\ \A i \in DOMAIN Stamps' :
                           \E j \in Young(Stamps, now) : Stamps'[i] = Stamps[j]
            /\ Limit = 0 => ret'.val = 0]_vars

\* A call was denied by a limiter with a positive limit, after an expired
\* timestamp had been pruned and replaced.
C2_Witness ==
    /\ ret.op = "acquire"
    /\ ret.val = 0
    /\ Limit > 0
    /\ now >= Window
    /\ Len(admitted) > Limit

\* C3: a wait-time query on a limiter with a positive limit returns zero
\* (None for RateLimiter) exactly when an admission attempt at the same
\* instant would succeed, and otherwise the strictly positive time until the
\* oldest timestamp in the window expires, at most the window length; it is
\* never negative.  (A step that leaves the clock and the number of
\* admission calls alone is a wait-time call.)
C3_WaitTimeContract ==
    [][(now' = now /\ nAcquire' = nAcquire /\ Limit > 0) =>
        LET admits == Admit(Stamps, now, Window, Limit).ok
            young == Prune(Stamps, now, Window)
            zero == IF lim = "RateLimiter"
                    THEN ret'.kind = NoValue
                    ELSE ret'.kind = "float" /\ ret'.val = 0
        IN  /\ ret'.op = "wait_time"
            /\ admits <=> zero
            /\ ~admits =>
                   /\ ret'.kind = "float"
                   /\ ret'.val > 0
                   /\ ret'.val <= Window
                   /\ ret'.val = Window - (now - SeqMin(young))]_vars

\* C4: the stored timestamp list never holds more than max_calls entries.
C4_ListBoundedByMaxCalls == Len(Stamps) <= Limit

\* The list is full after more admissions than the limit, some of them pruned.
C4_Witness ==
    /\ Limit > 0
    /\ Len(Stamps) = Limit
    /\ Len(admitted) > Limit

\* C35: after RateLimiter.wait_time() returned w > 0 at time t, with no call
\* admitted since, acquire() at time t + w is admitted (the oldest timestamp
\* is pruned when its age equals the window) and acquire() at any time
\* before t + w is denied.
C35_AdmittedExactlyAfterWaitTime ==
    [][(/\ lim = "RateLimiter"
        /\ nAcquire' # nAcquire
        /\ waited # <<>>
        /\ waited[3] = Len(admitted)) =>
           /\ now = waited[1] + waited[2] => ret'.val = 1
           /\ now < waited[1] + waited[2] => ret'.val = 0]_vars

\* wait_time() returned 40 at time 20 for a window of 60, acquire() was
\* denied at 40 and was admitted at 60.
C35_Witness ==
    /\ lim = "RateLimiter"
    /\ time_window = 3 * TickLen
    /\ waited = <<TickLen, 2 * TickLen, 1>>
    /\ ret = [op |-> "acquire", arg |-> 0, kind |-> "bool", val |-> 1]
    /\ admitted = <<0, 3 * TickLen>>
    /\ nAcquire = 3

\* =====================================================================
\* AsyncRequestQueue
\* =====================================================================
\* ------------------------------------------------------------------ bounds
\* Number of enqueue calls in one run of Spec (each draws a fresh id).
MaxReq == 2
\* Largest max_retries a request is enqueued with.
MaxRetries == 1
\* AsyncRequestQueue(max_queue_size=...) in Spec.
QueueSize == 1
\* AsyncRequestQueue(max_concurrent=...)
max_concurrent == 1
\* AsyncRequestQueue(rate_limit_per_minute=...)
RateLimits == {0, 1}
\* The priorities requests are enqueued with (RequestPriority has LOW too).
Priorities == {"high", "normal"}

Ids == 1..MaxReq
Terminal == {"completed", "failed", "cancelled"}

\* QueuedRequest(id, priority, status=PENDING, created_at=time.time(),
\* max_retries).  History, not fields of the dataclass: `invoked` counts
\* the invocations of this object's workload, `outcomes` lists how each
\* ended, after "loaded" when the object was built from a database row.
NewRequest(id, priority, retries, t) ==
    [id |-> id, priority |-> priority, status |-> "pending", created_at |-> t,
     result |-> NoValue, error |-> NoValue, retry_count |-> 0,
     max_retries |-> retries, invoked |-> 0, outcomes |-> <<>>]

\* The row _save_request_to_db writes for a request (a truthy result is
\* written as its JSON text).
Row(r) ==
    [priority |-> r.priority, status |-> r.status, created_at |-> r.created_at,
     result |-> r.result, error |-> r.error, retry_count |-> r.retry_count,
     max_retries |-> r.max_retries]

\* _save_request_to_db: INSERT OR REPLACE, or nothing without persistence.
Save(d, r) == IF persist_to_db THEN Put(d, r.id, Row(r)) ELSE d

\* The QueuedRequest _load_pending_requests builds from a row.
FromRow(id, row) ==
    [id |-> id, priority |-> row.priority, status |-> "pending",
     created_at |-> row.created_at, result |-> row.result, error |-> row.error,
     retry_count |-> row.retry_count, max_retries |-> row.max_retries,
     invoked |-> 0, outcomes |-> <<"loaded">>]

\* _get_priority_value
PriorityValueFlat(priority) == 2
PriorityValue(priority) ==
    CASE priority = "high" -> 1
      [] priority = "normal" -> 2
      [] priority = "low" -> 3

\* The tuple (priority_value, time, request) the queue holds.
EntryAtCreation(r, t) ==
    [prio |-> PriorityValue(r.priority), ts |-> r.created_at, req |-> r]
Entry(r, t) == [prio |-> PriorityValue(r.priority), ts |-> t, req |-> r]

\* The dataclass's generated __eq__: field by field.
SameRequest(a, b) == Row(a) = Row(b) /\ a.id = b.id

\* a < b on two queue tuples: "lt", "ge", or "TypeError" when priority and
\* time tie and the requests differ (QueuedRequest defines no ordering).
Less(a, b) ==
    IF a.prio # b.prio THEN (IF a.prio < b.prio THEN "lt" ELSE "ge")
    ELSE IF a.ts # b.ts THEN (IF a.ts < b.ts THEN "lt" ELSE "ge")
    ELSE IF SameRequest(a.req, b.req) THEN "ge"
    ELSE "TypeError"

\* heapq on a list; positions are 0-based as in heapq, h[p + 1] is item p.
Swap(h, p, q) == [h EXCEPT ![p + 1] = h[q + 1], ![q + 1] = h[p + 1]]

RECURSIVE SiftDown(_, _, _)
\* heapq's _siftdown: move the item at pos up while it is less than its parent.
SiftDown(h, startpos, pos) ==
    IF pos > startpos
    THEN LET parentpos == (pos - 1) \div 2
             c == Less(h[pos + 1], h[parentpos + 1])
         IN  IF c = "TypeError" THEN [heap |-> h, raised |-> TRUE]
             ELSE IF c = "ge" THEN [heap |-> h, raised |-> FALSE]
             ELSE SiftDown(Swap(h, pos, parentpos), startpos, parentpos)
    ELSE [heap |-> h, raised |-> FALSE]

RECURSIVE SiftUp(_, _, _)
\* heapq's _siftup: bubble the smaller child up to a leaf, then _siftdown.
SiftUp(h, startpos, pos) ==
    LET endpos == Len(h)
        childpos == 2 * pos + 1
    IN  IF pos < endpos \div 2
        THEN LET c == IF childpos + 1 < endpos
                      THEN Less(h[childpos + 1], h[childpos + 2])
                      ELSE "lt"
                 child == IF c = "lt" THEN childpos ELSE childpos + 1
             IN  IF c = "TypeError" THEN [heap |-> h, raised |-> TRUE]
                 ELSE SiftUp(Swap(h, child, pos), startpos, child)
        ELSE SiftDown(h, startpos, pos)

\* heapq.heappush: a raised comparison leaves the item appended.
HeapPush(h, e) == SiftDown(Append(h, e), 0, Len(h))

\* heapq.heappop: a raised comparison loses the item that was being returned.
HeapPop(h) ==
    LET n == Len(h)
        lastelt == h[n]
        rest == SubSeq(h, 1, n - 1)
    IN  IF n = 1 THEN [heap |-> <<>>, item |-> lastelt, raised |-> FALSE]
        ELSE LET r == SiftUp([rest EXCEPT ![1] = lastelt], 0, 0)
             IN  [heap |-> r.heap, item |-> h[1], raised |-> r.raised]

\* asyncio.Queue.full(): maxsize <= 0 is an unbounded queue.
FullOffByOne(h) == max_queue_size > 0 /\ Len(h) > max_queue_size
Full(h) == max_queue_size > 0 /\ Len(h) >= max_queue_size

\* get_status: _processing, then _completed, then the database.
get_status(id) ==
    IF id \in DOMAIN processing THEN processing[id].status
    ELSE IF id \in DOMAIN completed THEN completed[id].status
    ELSE IF persist_to_db /\ id \in DOMAIN db THEN db[id].status
    ELSE NoValue

\* ------------------------------------------------- the worker's steps
\* What the worker's code reads and writes, as one record; an operator on it
\* is a stretch of code that runs without suspending.
Mem ==
    [request_times |-> request_times, queue |-> queue, putters |-> putters,
     semaphore |-> semaphore, processing |-> processing, completed |-> completed, db |-> db,
     wpc |-> wpc, wake |-> wake]

Commit(m) ==
    /\ request_times' = m.request_times
    /\ queue' = m.queue
    /\ putters' = m.putters
    /\ semaphore' = m.semaphore
    /\ processing' = m.processing
    /\ completed' = m.completed
    /\ db' = m.db
    /\ wpc' = m.wpc
    /\ wake' = m.wake

\* The request the worker is processing: _process_request's `request`.
Current == processing[CHOOSE id \in DOMAIN processing : TRUE]

\* asyncio.Queue._wakeup_next(self._putters): wake the oldest waiting put().
WakeNext(ps) ==
    IF \E i \in DOMAIN ps : ~ps[i].woken
    THEN LET i == CHOOSE i \in DOMAIN ps :
                      ~ps[i].woken /\ \A j \in 1..(i - 1) : ps[j].woken
         IN  [ps EXCEPT ![i].woken = TRUE]
    ELSE ps

Remove(ps, i) == SubSeq(ps, 1, i - 1) \o SubSeq(ps, i + 1, Len(ps))

\* _process_request's finally block and the release of the semaphore, after
\* which _worker is back at the top of its loop.
FinallyLeavesProcessing(m, r) ==
    [m EXCEPT !.semaphore = @ + 1,
              !.completed = IF r.status \in {"completed", "failed"}
                            THEN Put(@, r.id, r) ELSE @,
              !.db = Save(@, r),
              !.wpc = "top"]
Finally(m, r) ==
    [m EXCEPT !.processing = Del(@, r.id),
              !.semaphore = @ + 1,
              !.completed = IF r.status \in {"completed", "failed"}
                            THEN Put(@, r.id, r) ELSE @,
              !.db = Save(@, r),
              !.wpc = "top"]

\* retry_count <= max_retries
RetryAllowed(r) == r.retry_count <= r.max_retries

\* The request as the retry branch leaves it: status PENDING.
RequeuedWithError(r, e) == [r EXCEPT !.status = "pending", !.error = e]
Requeued(r, e) == [r EXCEPT !.status = "pending"]

\* The request as the permanent-failure branch leaves it.
FailedForGood(r, e) == [r EXCEPT !.status = "failed", !.error = e]

\* The request after "result = await function(...)" returned.
Succeeded(r) ==
    [r EXCEPT !.status = "completed", !.result = "value",
              !.outcomes = Append(@, "returned")]

\* _process_request's "except Exception as e" block: count the failure, then
\* re-queue (suspending in put() when the queue is full) or fail for good.
OnException(m, r0, e) ==
    LET r == [r0 EXCEPT !.retry_count = @ + 1]
    IN  IF RetryAllowed(r)
        THEN LET rp == Requeued(r, e)
             IN  IF Full(m.queue)
                 THEN [m EXCEPT !.processing = Put(@, rp.id, rp),
                                !.putters = Append(@, [who |-> "worker",
                                                       entry |-> Entry(rp, now),
                                                       woken |-> FALSE]),
                                !.wpc = "put"]
                 ELSE Finally([m EXCEPT !.queue =
                                  HeapPush(@, Entry(rp, now)).heap], rp)
        ELSE Finally(m, FailedForGood(r, e))

\* _process_request's "while not await self._check_rate_limit()" loop up to
\* its next suspension: the workload is invoked, or the worker sleeps for
\* the wait time, or _get_wait_time raises.
Admission(m, r) ==
    LET a == Admit(m.request_times, now, RateWindow, rate_limit_per_minute)
        m1 == [m EXCEPT !.request_times = a.times]
        w == GetWaitTimeOf(a.times, now, rate_limit_per_minute)
    IN  IF a.ok
        THEN [m1 EXCEPT !.wpc = "function",
                        !.processing = Put(@, r.id, [r EXCEPT !.invoked = @ + 1])]
        ELSE IF w.kind = ValueError
        THEN OnException(m1, r, ValueError)
        ELSE [m1 EXCEPT !.wpc = "sleep",
                        !.wake = IF w.val > 0 THEN now + w.val ELSE now]

\* _worker's loop body once get() has returned entry e.
Dispatch(m, e) ==
    LET r == e.req
        failed == [r EXCEPT !.status = "failed", !.error = "Function not found"]
        started == [r EXCEPT !.status = "processing"]
    IN  IF r.status = "cancelled" THEN m
        ELSE IF ~functions.set THEN m        \* AttributeError, logged by _worker
        ELSE IF r.id \notin functions.ids
        THEN [m EXCEPT !.completed = Put(@, r.id, failed),
                       !.db = Save(@, failed)]
        ELSE IF m.semaphore = 0
        THEN [m EXCEPT !.wpc = "acquire"]   \* suspended for a permit, for good
        ELSE Admission([m EXCEPT !.semaphore = @ - 1,
                                 !.processing = Put(@, r.id, started),
                                 !.db = Save(@, started)], started)

WorkerRunning == worker_task = "running"

\* _worker: get() returns the heap's first entry and the request is dispatched.
WorkerGet ==
    /\ WorkerRunning
    /\ \/ wpc = "top" /\ ~shutdown_event
       \/ wpc = "get"
    /\ queue # <<>>
    /\ LET p == HeapPop(queue)
           m == [Mem EXCEPT !.queue = p.heap, !.wpc = "top"]
       IN  IF p.raised
           THEN Commit(m)
           ELSE Commit(Dispatch([m EXCEPT !.putters = WakeNext(@)], p.item))
    /\ UNCHANGED <<now, rlvars, cbvars, keptvars, waiter, functions, worker_task,
                   shutdown_event, stopping, next_id>>

\* _worker: the queue is empty, so wait_for(get(), 1.0) suspends.
WorkerWait ==
    /\ WorkerRunning
    /\ wpc = "top" /\ ~shutdown_event
    /\ queue = <<>>
    /\ wpc' = "get"
    /\ UNCHANGED <<now, rlvars, cbvars, keptvars, waiter, request_times, queue, putters,
                   semaphore, processing, completed, functions, worker_task,
                   shutdown_event, stopping, wake, db, next_id>>

\* _worker: wait_for times out on the empty queue; back to the loop's test.
WorkerTimeout ==
    /\ WorkerRunning
    /\ wpc = "get"
    /\ queue = <<>>
    /\ wpc' = "top"
    /\ UNCHANGED <<now, rlvars, cbvars, keptvars, waiter, request_times, queue, putters,
                   semaphore, processing, completed, functions, worker_task,
                   shutdown_event, stopping, wake, db, next_id>>

\* _worker: the loop's test finds the shutdown event set; the task ends.
WorkerExitCancelled ==
    /\ WorkerRunning
    /\ shutdown_event
    /\ worker_task' = "done"
    /\ UNCHANGED <<now, rlvars, cbvars, keptvars, waiter, request_times, queue, putters,
                   semaphore, processing, completed, functions, shutdown_event, stopping,
                   wpc, wake, db, next_id>>
WorkerExit ==
    /\ WorkerRunning
    /\ wpc = "top" /\ shutdown_event
    /\ worker_task' = "done"
    /\ UNCHANGED <<now, rlvars, cbvars, keptvars, waiter, request_times, queue, putters,
                   semaphore, processing, completed, functions, shutdown_event, stopping,
                   wpc, wake, db, next_id>>

\* _process_request: asyncio.sleep(wait_time) is over; admission is retried.
WorkerWake ==
    /\ WorkerRunning
    /\ wpc = "sleep"
    /\ now >= wake
    /\ Commit(Admission(Mem, Current))
    /\ UNCHANGED <<now, rlvars, cbvars, keptvars, waiter, functions, worker_task,
                   shutdown_event, stopping, next_id>>

\* _process_request: the workload returns a value.
WorkloadReturns ==
    /\ WorkerRunning
    /\ wpc = "function"
    /\ Commit(Finally(Mem, Succeeded(Current)))
    /\ UNCHANGED <<now, rlvars, cbvars, keptvars, waiter, functions, worker_task,
                   shutdown_event, stopping, next_id>>

\* _process_request: the workload raises.
WorkloadRaises ==
    /\ WorkerRunning
    /\ wpc = "function"
    /\ Commit(OnException(Mem, [Current EXCEPT !.outcomes = Append(@, "raised")],
                          "workload error"))
    /\ UNCHANGED <<now, rlvars, cbvars, keptvars, waiter, functions, worker_task,
                   shutdown_event, stopping, next_id>>

\* asyncio.Queue.put resumes after a wake-up: it waits again when the queue
\* is full, else puts.  A caller's enqueue then saves the request; the
\* worker's re-queue goes on to the finally block.
PutResume(i) ==
    /\ i \in DOMAIN putters
    /\ putters[i].woken
    /\ LET p == putters[i]
           h == HeapPush(queue, p.entry)
           m == [Mem EXCEPT !.putters = Remove(@, i)]
       IN  IF Full(queue)
           THEN Commit([m EXCEPT !.putters = Append(@, [p EXCEPT !.woken = FALSE])])
           ELSE IF p.who = "worker"
           THEN Commit(Finally([m EXCEPT !.queue = h.heap], p.entry.req))
           ELSE Commit([m EXCEPT !.queue = h.heap,
                                 !.db = IF h.raised THEN @
                                        ELSE Save(@, p.entry.req)])
    /\ UNCHANGED <<now, rlvars, cbvars, keptvars, waiter, functions, worker_task,
                   shutdown_event, stopping, next_id>>

\* ------------------------------------------------- the callers' operations
\* enqueue(function, priority=..., max_retries=...): a full queue suspends the
\* caller in put(), before the request is saved.
enqueue(priority, retries) ==
    /\ LET r == NewRequest(next_id, priority, retries, now)
           h == HeapPush(queue, Entry(r, now))
       IN  IF Full(queue)
           THEN /\ putters' = Append(putters, [who |-> "caller",
                                               entry |-> Entry(r, now),
                                               woken |-> FALSE])
                /\ UNCHANGED <<queue, db>>
           ELSE /\ queue' = h.heap
                /\ db' = IF h.raised THEN db ELSE Save(db, r)
                /\ UNCHANGED putters
    /\ functions' = [set |-> TRUE, ids |-> functions.ids \cup {next_id}]
    /\ next_id' = next_id + 1
    /\ UNCHANGED <<now, rlvars, cbvars, keptvars, waiter, request_times, semaphore, processing, completed,
                   worker_task, shutdown_event, stopping, wpc, wake>>

\* What cancel_request(id) returns.
CancelReturnsUnlessCompleted(id) == id \notin DOMAIN completed
CancelReturns(id) == id \notin DOMAIN processing /\ id \notin DOMAIN completed

\* cancel_request(id): unless the id is in _processing or _completed, the
\* row's status is set to CANCELLED (UPDATE ... WHERE id = ?).
cancel_request(id) ==
    /\ db' = IF CancelReturns(id) /\ persist_to_db /\ id \in DOMAIN db
             THEN [db EXCEPT ![id].status = "cancelled"]
             ELSE db
    /\ ret' = [op |-> "cancel_request", arg |-> id, kind |-> "bool",
               val |-> IF CancelReturns(id) THEN 1 ELSE 0]
    /\ UNCHANGED <<now, cbvars, lim, max_calls, time_window, calls, admitted, nAcquire, waited,
                   keptvars, memvars, next_id, waiter>>

\* The rows "WHERE status IN ('pending', 'processing')".
PendingRows == {id \in DOMAIN db : db[id].status \in {"pending", "processing"}}

\* The orders "ORDER BY created_at" may return the rows in: rows of equal
\* created_at come in any order.
LoadOrders ==
    {o \in [1..Cardinality(PendingRows) -> PendingRows] :
        /\ \A i, j \in DOMAIN o : i # j => o[i] # o[j]
        /\ \A i, j \in DOMAIN o :
               i < j => db[o[i]].created_at <= db[o[j]].created_at}

RECURSIVE LoadRows(_, _)
\* _load_pending_requests' loop: put_nowait raises QueueFull on a full
\* queue, heappush may raise TypeError; either ends the loading.
LoadRows(h, order) ==
    IF order = <<>> \/ Full(h) THEN h
    ELSE LET id == Head(order)
             r == HeapPush(h, Entry(FromRow(id, db[id]), db[id].created_at))
         IN  IF r.raised THEN r.heap ELSE LoadRows(r.heap, Tail(order))

\* start(): nothing when a worker task exists; else load and create the task.
start ==
    /\ worker_task = NoValue
    /\ \E o \in LoadOrders :
           queue' = IF persist_to_db THEN LoadRows(queue, o) ELSE queue
    /\ worker_task' = "running"
    /\ wpc' = "top"
    /\ UNCHANGED <<now, rlvars, cbvars, keptvars, waiter, request_times, putters, semaphore, processing,
                   completed, functions, shutdown_event, stopping, wake, db,
                   next_id>>

\* stop() up to "await self._worker_task".
stop ==
    /\ worker_task # NoValue
    /\ ~stopping
    /\ shutdown_event' = TRUE
    /\ stopping' = TRUE
    /\ UNCHANGED <<now, rlvars, cbvars, keptvars, waiter, request_times, queue, putters,
                   semaphore, processing, completed, functions, worker_task, wpc, wake,
                   db, next_id>>

\* stop() resumes once the worker task has ended, and returns.
StopReturns ==
    /\ stopping
    /\ worker_task = "done"
    /\ worker_task' = NoValue
    /\ stopping' = FALSE
    /\ UNCHANGED <<now, rlvars, cbvars, keptvars, waiter, request_times, queue, putters,
                   semaphore, processing, completed, functions, shutdown_event, wpc, wake,
                   db, next_id>>

\* The process ends and a new one constructs AsyncRequestQueue on the same
\* database file: __init__.
Restart ==
    /\ request_times' = <<>>
    /\ queue' = <<>>
    /\ putters' = <<>>
    /\ semaphore' = max_concurrent
    /\ processing' = EmptyMap
    /\ completed' = EmptyMap
    /\ functions' = [set |-> FALSE, ids |-> {}]
    /\ worker_task' = NoValue
    /\ shutdown_event' = FALSE
    /\ stopping' = FALSE
    /\ wpc' = "top"
    /\ wake' = 0
    /\ waiter' = NoWaiter
    /\ UNCHANGED <<now, rlvars, cbvars, keptvars, db, next_id>>

\* In Spec the clock advances two ticks at a time.
TickQ ==
    /\ now < MaxTime
    /\ now' = now + 2 * TickLen
    /\ UNCHANGED <<rlvars, qvars, cbvars>>

\* The queue after __init__ on an empty database, but for the constructor's
\* arguments.
Constructed ==
    /\ now = 0
    /\ lim = "AsyncRequestQueue"
    /\ max_calls = 0
    /\ time_window = RateWindow
    /\ calls = <<>>
    /\ ret = [op |-> "none", arg |-> 0, kind |-> NoValue, val |-> 0]
    /\ admitted = <<>>
    /\ nAcquire = 0
    /\ waited = <<>>
    /\ breaker = gemini_circuit_breaker
    /\ wrapper = NoCalls
    /\ request_times = <<>>
    /\ db = EmptyMap
    /\ next_id = 1
    /\ queue = <<>>
    /\ putters = <<>>
    /\ semaphore = max_concurrent
    /\ processing = EmptyMap
    /\ completed = EmptyMap
    /\ functions = [set |-> FALSE, ids |-> {}]
    /\ worker_task = NoValue
    /\ shutdown_event = FALSE
    /\ stopping = FALSE
    /\ wpc = "top"
    /\ wake = 0
    /\ waiter = NoWaiter

Init ==
    /\ Constructed
    /\ rate_limit_per_minute \in RateLimits
    /\ persist_to_db \in BOOLEAN
    /\ max_queue_size = QueueSize

Next ==
    \/ \E priority \in Priorities, retries \in 0..MaxRetries :
           next_id <= MaxReq /\ enqueue(priority, retries)
    \/ \E id \in Ids : cancel_request(id)
    \/ start
    \/ stop
    \/ StopReturns
    \/ WorkerGet
    \/ WorkerWait
    \/ WorkerTimeout
    \/ WorkerExit
    \/ WorkerWake
    \/ WorkloadReturns
    \/ WorkloadRaises
    \/ \E i \in 1..MaxReq : PutResume(i)
    \/ Restart
    \/ TickQ

Spec == Init /\ [][Next]_vars

\* --------------------------------------- SpecOrder: a queue with room
\* Number of enqueue calls in one run of SpecOrder, all of which the queue
\* has room for, and the rate limit, which does not hold the worker back.
OrderReq == 3
OrderRate == 6

InitOrder ==
    /\ Constructed
    /\ rate_limit_per_minute = OrderRate
    /\ persist_to_db = FALSE
    /\ max_queue_size = OrderReq

NextOrder ==
    \/ \E priority \in Priorities, retries \in 0..MaxRetries :
           next_id <= OrderReq /\ enqueue(priority, retries)
    \/ start
    \/ WorkerGet
    \/ WorkerWait
    \/ WorkerTimeout
    \/ WorkloadReturns
    \/ WorkloadRaises
    \/ TickQ

SpecOrder == InitOrder /\ [][NextOrder]_vars

\* ------------------------- SpecPersist: enqueue, start and stop, persisted
\* AsyncRequestQueue(max_queue_size=...) in SpecPersist.
PersistQueueSize == 2

InitPersist ==
    /\ Constructed
    /\ rate_limit_per_minute = 1
    /\ persist_to_db = TRUE
    /\ max_queue_size = PersistQueueSize

NextPersist ==
    \/ \E priority \in Priorities, retries \in 0..MaxRetries :
           next_id <= MaxReq /\ enqueue(priority, retries)
    \/ start
    \/ stop
    \/ StopReturns
    \/ WorkerGet
    \/ WorkerWait
    \/ WorkerTimeout
    \/ WorkerExit
    \/ WorkerWake
    \/ WorkloadReturns
    \/ WorkloadRaises
    \/ \E i \in 1..MaxReq : PutResume(i)
    \/ TickQ

SpecPersist == InitPersist /\ [][NextPersist]_vars

\* ------------------------------ SpecWait: callers wait for completion
\* The timeouts wait_for_completion is called with, besides None.
Timeouts == {0, 2 * TickLen}

\* One pass of wait_for_completion's loop for the call w, up to its return,
\* its raise, or its asyncio.sleep(0.1).
WaitPass(w) ==
    LET status == get_status(w.id)
    IN  IF status = NoValue
        THEN [w EXCEPT !.pc = "idle", !.polled = now, !.out = "ValueError"]
        ELSE IF status \in Terminal
        THEN [w EXCEPT !.pc = "idle", !.polled = now, !.out = status]
        ELSE IF w.timed /\ w.timeout # 0 /\ now - w.start_time > w.timeout
        THEN [w EXCEPT !.pc = "idle", !.polled = now, !.out = "TimeoutError"]
        ELSE [w EXCEPT !.pc = "sleep", !.polled = now]

\* wait_for_completion(id, timeout) is called and runs to its first
\* suspension or to its end.
wait_for_completion(id, timed, timeout) ==
    /\ waiter.pc = "idle"
    /\ waiter' = WaitPass([pc |-> "idle", id |-> id, timed |-> timed,
                           timeout |-> timeout, start_time |-> now,
                           polled |-> now, out |-> NoValue])
    /\ UNCHANGED <<now, rlvars, cbvars, keptvars, memvars, db, next_id>>

\* wait_for_completion: asyncio.sleep(0.1) is over; the loop goes round.
WaitPoll ==
    /\ waiter.pc = "sleep"
    /\ waiter' = WaitPass(waiter)
    /\ UNCHANGED <<now, rlvars, cbvars, keptvars, memvars, db, next_id>>

InitWait ==
    /\ Constructed
    /\ rate_limit_per_minute = 1
    /\ persist_to_db \in BOOLEAN
    /\ max_queue_size = MaxReq

NextWait ==
    \/ \E priority \in Priorities, retries \in 0..MaxRetries :
           next_id <= MaxReq /\ enqueue(priority, retries)
    \/ \E id \in Ids, timeout \in Timeouts :
           wait_for_completion(id, TRUE, timeout)
    \/ \E id \in Ids : wait_for_completion(id, FALSE, 0)
    \/ WaitPoll
    \/ start
    \/ WorkerGet
    \/ WorkerWait
    \/ WorkerTimeout
    \/ WorkerWake
    \/ WorkloadReturns
    \/ WorkloadRaises
    \/ TickQ

SpecWait == InitWait /\ [][NextWait]_vars

\* ------------------------------ SpecStats: callers read the statistics
\* What get_queue_stats returns: _get_wait_time's ValueError, or the dict.
QueueStats ==
    LET w == GetWaitTimeOf(request_times, now, rate_limit_per_minute)
    IN  IF w.kind = ValueError
        THEN [kind |-> ValueError, queue_size |-> 0, processing_count |-> 0,
              requests_last_minute |-> 0, wait_time_seconds |-> 0]
        ELSE [kind |-> "dict", queue_size |-> Len(queue),
              processing_count |-> Cardinality(DOMAIN processing),
              requests_last_minute |-> Len(request_times),
              wait_time_seconds |-> w.val]

\* get_queue_stats()
get_queue_stats ==
    /\ ret' = [op |-> "get_queue_stats", arg |-> 0, kind |-> QueueStats.kind,
               val |-> QueueStats]
    /\ UNCHANGED <<now, cbvars, lim, max_calls, time_window, calls, admitted,
                   nAcquire, waited, qvars>>

InitStats ==
    /\ Constructed
    /\ rate_limit_per_minute = 1
    /\ persist_to_db = FALSE
    /\ max_queue_size = MaxReq

NextStats ==
    \/ \E priority \in Priorities, retries \in 0..MaxRetries :
           next_id <= MaxReq /\ enqueue(priority, retries)
    \/ get_queue_stats
    \/ start
    \/ WorkerGet
    \/ WorkerWait
    \/ WorkerTimeout
    \/ WorkerWake
    \/ WorkloadReturns
    \/ WorkloadRaises
    \/ TickQ

SpecStats == InitStats /\ [][NextStats]_vars

\* =====================================================================
\* CircuitBreaker and circuit_breaker_check
\* =====================================================================
\* Largest failure_threshold a breaker is constructed with, besides the
\* module's own.
MaxThreshold == 2
\* Number of calls made through the wrapper in one run.
MaxCbCalls == 5
\* The cooldowns a breaker is constructed with.
Cooldowns == {TickLen, 2 * TickLen}
\* The classes expected_exception is set to.
ExpectedClasses == {"Exception", "NetworkError"}
\* What the wrapped function raises: a failure of the dependency, or an
\* error in the caller's input.
Raised == {"ServiceUnavailable", "ValidationError"}

\* isinstance(exception, cls), for the classes above.
IsInstance(exception, cls) == cls = "Exception" \/ cls = exception

\* map_google_exception, on the exceptions above.
map_google_exception(exception) ==
    IF exception = "ServiceUnavailable" THEN "NetworkError" ELSE exception

\* "self.last_failure_time and time.time() - self.last_failure_time >=
\* self.timeout": None and 0.0 are both falsy.
CooledDownHalfWay(b, t) ==
    /\ b.last_failure_time # <<>>
    /\ b.last_failure_time[1] # 0
    /\ 2 * (t - b.last_failure_time[1]) >= b.timeout
CooledDown(b, t) ==
    /\ b.last_failure_time # <<>>
    /\ b.last_failure_time[1] # 0
    /\ t - b.last_failure_time[1] >= b.timeout

\* can_proceed at time t: what it returns, and the breaker it leaves.
can_proceed(b, t) ==
    IF b.state = "CLOSED" THEN [ok |-> TRUE, breaker |-> b]
    ELSE IF b.state = "OPEN"
    THEN IF CooledDown(b, t)
         THEN [ok |-> TRUE, breaker |-> [b EXCEPT !.state = "HALF_OPEN"]]
         ELSE [ok |-> FALSE, breaker |-> b]
    ELSE [ok |-> TRUE, breaker |-> b]

\* on_success
on_success(b) == [b EXCEPT !.failure_count = 0, !.state = "CLOSED"]

\* "self.failure_count >= self.failure_threshold"
TrippedLate(b) == b.failure_count > b.failure_threshold
Tripped(b) == b.failure_count >= b.failure_threshold

\* on_failure at time t
on_failure(b, exception, t) ==
    IF IsInstance(exception, b.expected_exception)
    THEN LET counted == [b EXCEPT !.failure_count = @ + 1,
                                  !.last_failure_time = <<t>>]
         IN  IF Tripped(counted) THEN [counted EXCEPT !.state = "OPEN"]
             ELSE counted
    ELSE b

\* circuit_breaker_check's wrapper is called by c: it raises
\* CircuitBreakerOpenError, or invokes func and suspends in "await func(...)".
CheckedCall(c) ==
    /\ wrapper.pc[c] = "idle"
    /\ wrapper.started < MaxCbCalls
    /\ LET p == can_proceed(breaker, now)
       IN  /\ breaker' = p.breaker
           /\ wrapper' =
                  IF p.ok
                  THEN [wrapper EXCEPT !.pc[c] = "running",
                                       !.out[c] = NoValue,
                                       !.via[c] = p.breaker.state,
                                       !.started = @ + 1,
                                       !.invoked = @ + 1]
                  ELSE [wrapper EXCEPT !.out[c] = "CircuitBreakerOpenError",
                                       !.via[c] = NoValue,
                                       !.started = @ + 1]
    /\ UNCHANGED <<now, rlvars, qvars>>

\* The wrapper: func returned, on_success, the result is returned.
CheckedReturns(c) ==
    /\ wrapper.pc[c] = "running"
    /\ breaker' = on_success(breaker)
    /\ wrapper' = [wrapper EXCEPT !.pc[c] = "idle", !.out[c] = "returned"]
    /\ UNCHANGED <<now, rlvars, qvars>>

\* The wrapper: func raised e; the mapped exception is counted and raised.
CheckedRaises(c, e) ==
    /\ wrapper.pc[c] = "running"
    /\ breaker' = on_failure(breaker, map_google_exception(e), now)
    /\ wrapper' = [wrapper EXCEPT
           !.pc[c] = "idle",
           !.out[c] = map_google_exception(e),
           !.reopened =
               IF /\ breaker.state = "HALF_OPEN"
                  /\ IsInstance(map_google_exception(e),
                                breaker.expected_exception)
               THEN <<now>> ELSE @]
    /\ UNCHANGED <<now, rlvars, qvars>>

TickCB == Tick /\ UNCHANGED <<rlvars, qvars, cbvars>>

\* The wrapper consults the module's breaker, or one constructed otherwise.
InitCB ==
    /\ now = 0
    /\ lim = "AsyncRequestQueue"
    /\ max_calls = 0
    /\ time_window = RateWindow
    /\ rate_limit_per_minute = 0
    /\ calls = <<>>
    /\ request_times = <<>>
    /\ QueueIdle
    /\ ret = [op |-> "none", arg |-> 0, kind |-> NoValue, val |-> 0]
    /\ admitted = <<>>
    /\ nAcquire = 0
    /\ waited = <<>>
    /\ \/ breaker = gemini_circuit_breaker
       \/ \E th \in 1..MaxThreshold, to \in Cooldowns, cls \in ExpectedClasses :
              breaker = CircuitBreaker(th, to, cls)
    /\ wrapper = NoCalls

NextCB ==
    \/ \E c \in Callers : CheckedCall(c)
    \/ \E c \in Callers : CheckedReturns(c)
    \/ \E c \in Callers, e \in Raised : CheckedRaises(c, e)
    \/ TickCB

SpecCB == InitCB /\ [][NextCB]_vars

\* ------------------------------------------------- claims on the queue
\* Every QueuedRequest object the queue's memory holds.
Requests ==
    {queue[i].req : i \in DOMAIN queue}
        \cup {putters[i].entry.req : i \in DOMAIN putters}
        \cup {processing[id] : id \in DOMAIN processing}
        \cup {completed[id] : id \in DOMAIN completed}

\* C5: once get_status reports COMPLETED, FAILED or CANCELLED for a request,
\* no later step changes the status it reports (a restart without
\* persistence forgets the request altogether).
C5_TerminalStatusIsFinal ==
    [][\A id \in Ids :
          get_status(id) \in Terminal =>
              get_status(id)' \in {get_status(id), NoValue}]_vars

\* The edges of the request state machine.
Edges ==
    {<<"pending", "processing">>, <<"processing", "completed">>,
     <<"processing", "pending">>, <<"processing", "failed">>,
     <<"pending", "cancelled">>}

\* The status of request id in the queue's memory: of the object being
\* processed, else of the finished one, else of the one waiting in the queue.
MemStatus(id) ==
    IF id \in DOMAIN processing THEN processing[id].status
    ELSE IF id \in DOMAIN completed THEN completed[id].status
    ELSE IF \E i \in DOMAIN queue : queue[i].req.id = id
    THEN queue[CHOOSE i \in DOMAIN queue : queue[i].req.id = id].req.status
    ELSE NoValue

\* C6: every change of the status of a request the queue's memory holds is
\* an edge of the state machine; in particular none goes from PENDING
\* directly to FAILED.  (With a positive rate limit no step of the worker
\* assigns a request's status twice, so a step's change of status is one
\* assignment of the code.)
C6_OnlyStateMachineEdges ==
    [][rate_limit_per_minute > 0 =>
        \A id \in Ids :
            (/\ MemStatus(id) # MemStatus(id)'
             /\ MemStatus(id) # NoValue
             /\ MemStatus(id)' # NoValue)
                => <<MemStatus(id), MemStatus(id)'>> \in Edges]_vars

\* C7: a request whose workload failed on every invocation and that ended
\* FAILED was invoked max_retries + 1 times and its retry_count equals
\* max_retries.
C7_FailedAfterMaxRetries ==
    \A id \in DOMAIN completed :
        LET r == completed[id]
        IN  (r.status = "failed" /\ r.error = "workload error") =>
                /\ r.invoked = r.max_retries + 1
                /\ r.retry_count = r.max_retries

\* C8: a request (as enqueue made it) whose workload raised on its first
\* invocation and returned a value on its second is COMPLETED with
\* retry_count 1, a result, no error, and two invocations.
C8_FailOnceThenSucceed ==
    \A r \in Requests :
        r.outcomes = <<"raised", "returned">> =>
            /\ r.status = "completed"
            /\ r.retry_count = 1
            /\ r.result # NoValue
            /\ r.error = NoValue
            /\ r.invoked = 2

\* A request finished after one failed and one successful invocation.
C8_Witness ==
    \E id \in DOMAIN completed :
        /\ completed[id].outcomes = <<"raised", "returned">>
        /\ completed[id].max_retries >= 1

\* C9: no request in the queue's memory, in any status, has retry_count
\* greater than its max_retries; stated of a queue with a positive rate
\* limit, where only the workload's failures are counted.
C9_RetryCountBounded ==
    rate_limit_per_minute > 0 =>
        \A r \in Requests : r.retry_count <= r.max_retries

C11_EnqueueOnFullQueueFails ==
    [][(next_id' # next_id /\ Full(queue)) =>
          /\ putters' = putters
          /\ queue' = queue
          /\ db' = db]_vars

\* Request id is PENDING: so in the queue's memory, or so in its row, or its
\* enqueue call is still suspended in put().
IsPending(id) ==
    \/ MemStatus(id) = "pending"
    \/ persist_to_db /\ id \in DOMAIN db /\ db[id].status = "pending"
    \/ \E i \in DOMAIN putters : putters[i].entry.req.id = id

\* C12: once cancel_request(id) has returned true for a PENDING request and
\* marked its row cancelled, the worker never takes the request up: it does
\* not enter _processing.
C12_CancelledNeverDispatched ==
    [][\A id \in Ids :
          (/\ ret = [op |-> "cancel_request", arg |-> id, kind |-> "bool",
                     val |-> 1]
           /\ persist_to_db /\ id \in DOMAIN db /\ db[id].status = "cancelled"
           /\ MemStatus(id) = "pending")
              => id \notin DOMAIN processing']_vars

\* C13: cancel_request(id) returns true only if request id was PENDING when
\* it was called.  (In Spec only cancel_request changes ret.)
C13_CancelTrueOnlyIfPending ==
    [][(ret' # ret /\ ret'.op = "cancel_request" /\ ret'.val = 1)
          => IsPending(ret'.arg)]_vars

\* C14: cancel_request(id) called while request id is PROCESSING returns
\* false and changes nothing in memory or in the database.
C14_CancelProcessingRefused ==
    [][\A id \in Ids :
          (/\ cancel_request(id)
           /\ id \in DOMAIN processing
           /\ processing[id].status = "processing")
              => /\ ret'.val = 0
                 /\ UNCHANGED <<now, qvars>>]_vars

\* cancel_request was refused for a request whose workload is in flight and
\* whose row says processing.
C14_Witness ==
    /\ ret.op = "cancel_request"
    /\ ret.val = 0
    /\ ret.arg \in DOMAIN processing
    /\ processing[ret.arg].status = "processing"
    /\ wpc = "function"
    /\ persist_to_db
    /\ db[ret.arg].status = "processing"

\* C17: the requests in _processing, and so the requests whose status is
\* PROCESSING, number at most max_concurrent, whatever the rate limit and
\* the limiter's list.
C17_ProcessingBounded ==
    /\ Cardinality(DOMAIN processing) <= max_concurrent
    /\ Cardinality({r \in Requests : r.status = "processing"}) <= max_concurrent
    /\ semaphore = max_concurrent - Cardinality(DOMAIN processing)

\* max_concurrent requests are processing, the last one held back by the
\* rate limiter, while another request waits in the queue.
C17_Witness ==
    /\ Cardinality(DOMAIN processing) = max_concurrent
    /\ wpc = "sleep"
    /\ request_times # <<>>
    /\ queue # <<>>

\* C18: start() puts every row whose status is pending or processing into
\* the queue, as a PENDING request ranked by the row's creation time, and
\* no row of another status; none of those rows is dropped.  (The step that
\* creates the worker task is start().)
C18_StartReloadsEveryRow ==
    [][(worker_task = NoValue /\ worker_task' = "running" /\ persist_to_db) =>
          /\ \A id \in PendingRows :
                 \E i \in DOMAIN queue' :
                     /\ queue'[i].req.id = id
                     /\ queue'[i].req.status = "pending"
                     /\ queue'[i].ts = db[id].created_at
          /\ \A i \in DOMAIN queue' :
                 \/ queue'[i].req.id \in PendingRows
                 \/ \E j \in DOMAIN queue : queue[j] = queue'[i]]_vars

\* A persistent queue across process restarts, with nobody cancelling or
\* stopping.  The event loop runs every coroutine that is ready and the clock
\* advances: weak fairness on the worker's steps, on the resumption of a
\* woken put() and on the clock.
InitRestart ==
    /\ Init
    /\ persist_to_db
    /\ rate_limit_per_minute > 0

NextRestart ==
    \/ \E priority \in Priorities, retries \in 0..MaxRetries :
           next_id <= MaxReq /\ enqueue(priority, retries)
    \/ start
    \/ WorkerGet
    \/ WorkerWait
    \/ WorkerTimeout
    \/ WorkerWake
    \/ WorkloadReturns
    \/ WorkloadRaises
    \/ \E i \in 1..MaxReq : PutResume(i)
    \/ Restart
    \/ TickQ

SpecRestart ==
    /\ InitRestart
    /\ [][NextRestart]_vars
    /\ WF_vars(WorkerGet)
    /\ WF_vars(WorkerWait)
    /\ WF_vars(WorkerTimeout)
    /\ WF_vars(WorkerWake)
    /\ WF_vars(WorkloadReturns \/ WorkloadRaises)
    /\ \A i \in 1..MaxReq : WF_vars(PutResume(i))
    /\ WF_vars(TickQ)

\* Request id is in the queue as start() reloaded it from its row.
Reloaded(id) ==
    \E i \in DOMAIN queue :
        queue[i].req.id = id /\ queue[i].req.outcomes = <<"loaded">>

\* Request id is PROCESSING and its workload has been invoked.
Redispatched(id) ==
    /\ id \in DOMAIN processing
    /\ processing[id].status = "processing"
    /\ processing[id].invoked > 0

\* C19: a request reloaded at startup from a row that said pending or
\* processing is eventually redispatched, PROCESSING with its workload
\* invoked, unless the worker of this process ends first.
C19_ReloadedEventuallyRedispatched ==
    \A id \in Ids :
        (Reloaded(id) /\ worker_task = "running")
            ~> (Redispatched(id) \/ worker_task # "running")

\* The worker dequeues and takes up request id in this step.
Taken(id) == id \notin DOMAIN processing /\ id \in DOMAIN processing'

\* The queue's entry of request id.
EntryOf(id) == queue[CHOOSE i \in DOMAIN queue : queue[i].req.id = id]

\* The order the claims give the priorities: HIGH before NORMAL before LOW.
Rank(priority) ==
    CASE priority = "high" -> 1
      [] priority = "normal" -> 2
      [] priority = "low" -> 3

Retried(id) ==
    /\ id \in DOMAIN processing
    /\ id \notin DOMAIN processing'
    /\ \E i \in DOMAIN queue' : queue'[i].req.id = id

Copies(id) ==
    Cardinality({i \in DOMAIN queue : queue[i].req.id = id})
        + (IF id \in DOMAIN processing THEN 1 ELSE 0)

\* C20: with persistence, whatever enqueue, start and stop calls are made,
\* every request whose row says pending or processing is exactly once in
\* the queue or in _processing, and a COMPLETED request is in neither, so
\* that its workload is not invoked again.
C20_NeitherLostNorDuplicated ==
    \A id \in Ids :
        /\ (id \in DOMAIN db /\ db[id].status \in {"pending", "processing"})
               => Copies(id) = 1
        /\ (id \in DOMAIN completed /\ completed[id].status = "completed")
               => Copies(id) = 0

\* The requests that have been through a status assignment and its save:
\* those in the queue, in _processing and in _completed.
Saved ==
    {queue[i].req : i \in DOMAIN queue}
        \cup {processing[id] : id \in DOMAIN processing}
        \cup {completed[id] : id \in DOMAIN completed}

\* C21: with persistence, wherever the worker or a caller has yielded
\* control, the row of every request the queue's memory holds carries the
\* status the request has in memory.
C21_RowStatusIsMemoryStatus ==
    persist_to_db =>
        \A r \in Saved : r.id \in DOMAIN db /\ db[r.id].status = r.status

\* stop() has returned in this process and no later stop() is under way.
StopReturned == shutdown_event /\ ~stopping

\* The attempt on request id ends in this step with an outcome: the request
\* is COMPLETED or FAILED, or it is back in the queue, PENDING, for a retry.
AttemptEnds(id) ==
    /\ id \in DOMAIN processing
    /\ id \notin DOMAIN processing'
    /\ \/ /\ id \in DOMAIN completed'
          /\ completed'[id].status \in {"completed", "failed"}
          /\ completed'[id].invoked = processing[id].invoked
       \/ \E j \in DOMAIN queue' :
              /\ queue'[j].req.id = id
              /\ queue'[j].req.status = "pending"
              /\ queue'[j].req.retry_count >= 1

\* C22: a call of stop() leaves the request being processed as it is; the
\* attempt goes on to its outcome while stop() waits, and stop() returns
\* only with nothing in _processing.  Once stop() has returned, no request
\* is PROCESSING, in memory or by get_status, and every entry of the queue
\* stays in the queue, unchanged and PENDING.
C22_StopDrains ==
    /\ [](StopReturned =>
              /\ processing = EmptyMap
              /\ \A r \in Requests : r.status # "processing"
              /\ \A id \in Ids : get_status(id) # "processing"
              /\ \A i \in DOMAIN queue : queue[i].req.status = "pending")
    /\ [][/\ (~stopping /\ stopping') =>
                 UNCHANGED <<processing, completed, queue, putters, db,
                             request_times, semaphore, wpc, wake, worker_task>>
          /\ \A id \in Ids :
                 (stopping /\ id \in DOMAIN processing
                      /\ processing' # processing) =>
                     /\ worker_task = "running" /\ worker_task' = "running"
                     /\ stopping'
                     /\ id \in DOMAIN processing' \/ AttemptEnds(id)
          /\ (stopping /\ ~stopping') => processing = EmptyMap /\ wpc = "top"
          /\ StopReturned =>
                 \A i \in DOMAIN queue : \E j \in DOMAIN queue' :
                     queue'[j] = queue[i]]_vars

\* stop() was called while request 1 was being processed, its workload
\* invoked and not yet returned, and another request waits in the queue.
C22_Witness ==
    /\ stopping
    /\ worker_task = "running"
    /\ wpc = "function"
    /\ 1 \in DOMAIN processing
    /\ processing[1].status = "processing"
    /\ queue # <<>>

\* C23: a pass of wait_for_completion's loop that finds the request short of
\* a terminal state more than `timeout` seconds after the call, for any
\* timeout given, 0 included, raises the timeout error; and no step of
\* wait_for_completion changes the queue's memory or the database.
C23_TimeoutRaisedForEveryTimeout ==
    [][waiter' # waiter =>
          /\ UNCHANGED <<memvars, db>>
          /\ (/\ waiter'.timed
              /\ get_status(waiter'.id) \notin Terminal \cup {NoValue}
              /\ now - waiter'.start_time > waiter'.timeout)
                 => waiter'.pc = "idle" /\ waiter'.out = "TimeoutError"]_vars

\* enqueue has returned id to its caller.
Returned(id) ==
    /\ id < next_id
    /\ \A i \in DOMAIN putters :
           putters[i].who = "caller" => putters[i].entry.req.id # id

\* C24: get_status finds every id enqueue has returned, whatever the
\* request's status and with or without persistence; wait_for_completion
\* raises the not-found error only for an id enqueue never returned, and
\* what it returns is COMPLETED, FAILED or CANCELLED.
C24_ReturnedIdIsFound ==
    /\ [](\A id \in Ids : Returned(id) => get_status(id) # NoValue)
    /\ [][waiter' # waiter =>
              /\ waiter'.out = "ValueError" => ~Returned(waiter'.id)
              /\ waiter'.out \notin {NoValue, "ValueError", "TimeoutError"}
                     => waiter'.out \in Terminal]_vars

\* ------------------------------------------------- claims on the breaker
\* Caller c's call ends in this step with func having returned.
Succeeds(c) ==
    /\ wrapper.pc[c] = "running"
    /\ wrapper'.pc[c] = "idle"
    /\ wrapper'.out[c] = "returned"

\* Caller c's call ends in this step with an exception func raised.
Fails(c) ==
    /\ wrapper.pc[c] = "running"
    /\ wrapper'.pc[c] = "idle"
    /\ wrapper'.out[c] # "returned"

\* Caller c's call ends in this step with a failure the breaker counts.
FailsCounted(c) ==
    Fails(c) /\ IsInstance(wrapper'.out[c], breaker.expected_exception)

\* C25: a CLOSED breaker has counted fewer failures than failure_threshold
\* since it was constructed or last saw a success; while it is CLOSED every
\* counted failure adds one to failure_count, the breaker opens with the
\* failure that brings the count to failure_threshold and with no other
\* step, and a success sets failure_count to zero.
C25_OpensAtThreshold ==
    /\ [](breaker.state = "CLOSED" =>
              breaker.failure_count < breaker.failure_threshold)
    /\ [][breaker.state = "CLOSED" =>
              /\ \A c \in Callers :
                     FailsCounted(c) =>
                         /\ breaker'.failure_count = breaker.failure_count + 1
                         /\ breaker'.state = "OPEN" <=>
                                breaker'.failure_count = breaker.failure_threshold
              /\ \A c \in Callers :
                     Succeeds(c) =>
                         breaker'.failure_count = 0 /\ breaker'.state = "CLOSED"
              /\ breaker'.state # "CLOSED" =>
                     /\ breaker'.state = "OPEN"
                     /\ \E c \in Callers : FailsCounted(c)]_vars

\* The module's breaker has opened with its third failure in a row, the
\* only calls made.
C25_Witness ==
    /\ breaker.failure_threshold = 3
    /\ breaker.state = "OPEN"
    /\ breaker.failure_count = 3
    /\ wrapper.started = 3
    /\ \A c \in Callers : wrapper.pc[c] = "idle"

\* The breaker is OPEN and the cooldown since the last recorded failure has
\* not elapsed.
CoolingDown ==
    /\ breaker.state = "OPEN"
    /\ breaker.last_failure_time # <<>>
    /\ now - breaker.last_failure_time[1] < breaker.timeout

\* C26: a call through the wrapper while the breaker is OPEN and less than
\* the cooldown has passed since the last recorded failure ends at once with
\* CircuitBreakerOpenError, func is not invoked, and the breaker is left as
\* it was.
C26_OpenRefusesCalls ==
    [][(CoolingDown /\ wrapper'.started # wrapper.started) =>
          /\ wrapper'.pc = wrapper.pc
          /\ wrapper'.invoked = wrapper.invoked
          /\ breaker' = breaker
          /\ \E c \in Callers :
                 /\ wrapper.pc[c] = "idle"
                 /\ wrapper'.out[c] = "CircuitBreakerOpenError"
                 /\ \A d \in Callers \ {c} :
                        wrapper'.out[d] = wrapper.out[d]]_vars

\* Caller a has been refused by a breaker that is OPEN, with time passed
\* since the failure but less than the cooldown, while b's call is under way.
C26_Witness ==
    /\ CoolingDown
    /\ now > breaker.last_failure_time[1]
    /\ wrapper.out["a"] = "CircuitBreakerOpenError"
    /\ wrapper.pc["b"] = "running"
    /\ wrapper.invoked < wrapper.started

\* The breaker is OPEN and the cooldown has elapsed since the last recorded
\* failure, whenever that was.
CooldownOver ==
    /\ breaker.state = "OPEN"
    /\ breaker.last_failure_time # <<>>
    /\ now - breaker.last_failure_time[1] >= breaker.timeout

\* C27: a call made once the cooldown has elapsed since the last recorded
\* failure, at whatever time that failure was, finds the OPEN breaker
\* moving to HALF_OPEN and is let through to func; when a call let through
\* in HALF_OPEN succeeds the breaker is CLOSED with failure_count 0.
C27_HalfOpenAfterCooldown ==
    [][/\ (CooldownOver /\ wrapper'.started # wrapper.started) =>
              /\ breaker'.state = "HALF_OPEN"
              /\ wrapper'.invoked = wrapper.invoked + 1
              /\ \E c \in Callers :
                     /\ wrapper.pc[c] = "idle"
                     /\ wrapper'.pc[c] = "running"
                     /\ wrapper'.via[c] = "HALF_OPEN"
       /\ \A c \in Callers :
              (Succeeds(c) /\ wrapper.via[c] = "HALF_OPEN") =>
                  breaker'.state = "CLOSED" /\ breaker'.failure_count = 0]_vars

\* C28: a counted failure that finds the breaker HALF_OPEN leaves it OPEN
\* with last_failure_time the time of that failure, and every call made
\* before a full cooldown has passed since that failure is refused.
C28_HalfOpenFailureReopens ==
    [][/\ \A c \in Callers :
              (breaker.state = "HALF_OPEN" /\ FailsCounted(c)) =>
                  /\ breaker'.state = "OPEN"
                  /\ breaker'.last_failure_time = <<now>>
       /\ (/\ wrapper.reopened # <<>>
           /\ now - wrapper.reopened[1] < breaker.timeout
           /\ wrapper'.started # wrapper.started) =>
              /\ wrapper'.pc = wrapper.pc
              /\ wrapper'.invoked = wrapper.invoked]_vars

\* The calls under way that can_proceed let through with the breaker
\* HALF_OPEN: the probes whose outcome is not yet recorded.
Probes ==
    {c \in Callers : wrapper.pc[c] = "running" /\ wrapper.via[c] = "HALF_OPEN"}

\* C29: at most one probe is under way at any time; a caller that checks
\* the HALF_OPEN breaker while a probe is under way is refused.
C29_OneProbeInHalfOpen == Cardinality(Probes) <= 1

\* The breaker the wrapper consults is the module's, as configured.
GuardsGemini ==
    /\ breaker.failure_threshold = gemini_circuit_breaker.failure_threshold
    /\ breaker.timeout = gemini_circuit_breaker.timeout
    /\ breaker.expected_exception = gemini_circuit_breaker.expected_exception

\* C30: a failure whose exception is not an instance of expected_exception
\* leaves the breaker as it was; and for the module's breaker a failure of
\* the caller's input (ValidationError) is such a failure.
C30_OtherFailuresNotCounted ==
    [][\A c \in Callers :
          /\ (Fails(c) /\ ~IsInstance(wrapper'.out[c], breaker.expected_exception))
                 => breaker' = breaker
          /\ (Fails(c) /\ GuardsGemini /\ wrapper'.out[c] = "ValidationError")
                 => breaker' = breaker]_vars

\* C31: what get_queue_stats returns is the dict in which
\* requests_last_minute is the number of admissions in the 60 seconds up to
\* the call, queue_size the number of PENDING requests and
\* processing_count the number of PROCESSING ones; and the call changes
\* nothing of the queue or its limiter.
C31_StatsAreASnapshot ==
    [][(ret' # ret /\ ret'.op = "get_queue_stats") =>
          /\ UNCHANGED <<now, qvars>>
          /\ ret'.kind = "dict"
          /\ ret'.val.requests_last_minute =
                 Cardinality({i \in DOMAIN request_times :
                                  now - request_times[i] < RateWindow})
          /\ ret'.val.queue_size =
                 Cardinality({id \in Ids : MemStatus(id) = "pending"})
          /\ ret'.val.processing_count =
                 Cardinality({id \in Ids : MemStatus(id) = "processing"})]_vars

\* The worker takes request id from the queue and invokes its workload in
\* this step, after an attempt that raised.
Reinvoked(id) ==
    /\ Taken(id)
    /\ EntryOf(id).req.retry_count >= 1
    /\ EntryOf(id).req.outcomes # <<>>
    /\ EntryOf(id).req.outcomes[Len(EntryOf(id).req.outcomes)] = "raised"
    /\ processing'[id].invoked = EntryOf(id).req.invoked + 1

\* C32: when the workload of a request is invoked again after an attempt
\* that raised, time has passed since that failure (the time the request
\* was put back in the queue with).
C32_RetryAfterDelay ==
    [][\A id \in 1..OrderReq :
          (id \in {queue[i].req.id : i \in DOMAIN queue} /\ Reinvoked(id))
              => now > EntryOf(id).ts]_vars

\* The worker invokes a workload in this step.
Invokes == wpc # "function" /\ wpc' = "function"

\* The admissions the limiter still counts at this moment.
InWindow == {i \in DOMAIN request_times : now - request_times[i] < RateWindow}

\* C33: the worker invokes a workload only in a step in which
\* _check_rate_limit admits it: the request is PROCESSING, fewer than
\* rate_limit_per_minute admissions lie in the last 60 seconds, and the
\* time of the invocation joins them; a time enters _request_times with an
\* invocation and in no other way.  Hence _request_times, which after an
\* admission holds the invocations of the 60 seconds up to it, never holds
\* more than rate_limit_per_minute times.
C33_InvokedOnlyWhenAdmitted ==
    /\ [](/\ Len(request_times) <= rate_limit_per_minute
          /\ \A i, j \in DOMAIN request_times :
                 /\ i < j => request_times[i] <= request_times[j]
                 /\ request_times[j] - request_times[i] < RateWindow)
    /\ [][/\ Invokes =>
                 /\ Cardinality(DOMAIN processing') = 1
                 /\ \A id \in DOMAIN processing' :
                        /\ processing'[id].status = "processing"
                        /\ processing'[id].invoked >= 1
                 /\ Cardinality(InWindow) < rate_limit_per_minute
                 /\ Len(request_times') = Cardinality(InWindow) + 1
                 /\ request_times'[Len(request_times')] = now
          /\ (/\ request_times' # request_times
              /\ Len(request_times') = Cardinality(InWindow) + 1) => Invokes]_vars

\* A retry was denied admission at time 0, slept, and was admitted and
\* invoked at time 80, once the first invocation had left the window.
C33_Witness ==
    /\ wpc = "function"
    /\ rate_limit_per_minute = 1
    /\ Current.status = "processing"
    /\ Current.invoked = 2
    /\ Current.outcomes = <<"raised">>
    /\ request_times = <<4 * TickLen>>

\* A request or a row has result and error only in the status they go with.
FieldsFitStatus(r) ==
    /\ r.result # NoValue => r.status = "completed"
    /\ r.error # NoValue => r.status = "failed"

\* C34: in the queue's memory and in the database, a request has a result
\* only when it is COMPLETED and an error only when it is FAILED.
C34_ResultAndErrorFitStatus ==
    /\ \A r \in Requests : FieldsFitStatus(r)
    /\ \A id \in DOMAIN db : FieldsFitStatus(db[id])

\* ------------------------------------- SpecLive: a started queue, scheduled
\* A queue of capacity QueueSize without persistence, whose rate limit does
\* not hold the worker back, with callers enqueueing and stopping.  The event
\* loop runs every coroutine that is ready, every invoked workload ends and
\* the clock advances: weak fairness on the worker's steps, on the
\* resumption of a woken put(), on stop()'s resumption and on the clock.
InitLive ==
    /\ Constructed
    /\ rate_limit_per_minute = OrderRate
    /\ persist_to_db = FALSE
    /\ max_queue_size = QueueSize

NextLive ==
    \/ \E priority \in Priorities, retries \in 0..MaxRetries :
           next_id <= MaxReq /\ enqueue(priority, retries)
    \/ start
    \/ stop
    \/ StopReturns
    \/ WorkerGet
    \/ WorkerWait
    \/ WorkerTimeout
    \/ WorkerExit
    \/ WorkloadReturns
    \/ WorkloadRaises
    \/ \E i \in 1..MaxReq : PutResume(i)
    \/ TickQ

SpecLive ==
    /\ InitLive
    /\ [][NextLive]_vars
    /\ WF_vars(WorkerGet)
    /\ WF_vars(WorkerWait)
    /\ WF_vars(WorkerTimeout)
    /\ WF_vars(WorkerExit)
    /\ WF_vars(WorkloadReturns \/ WorkloadRaises)
    /\ \A i \in 1..MaxReq : WF_vars(PutResume(i))
    /\ WF_vars(StopReturns)
    /\ WF_vars(TickQ)

\* enqueue has accepted request id: it is in the queue or with the worker.
Accepted(id) ==
    \/ \E i \in DOMAIN queue : queue[i].req.id = id
    \/ id \in DOMAIN processing

\* C36: with the worker running, every request enqueue has accepted eventually
\* is COMPLETED, FAILED or CANCELLED, unless the queue is stopped first.
C36_AcceptedEventuallyTerminal ==
    \A id \in Ids :
        (Accepted(id) /\ worker_task = "running" /\ ~shutdown_event)
            ~> (MemStatus(id) \in Terminal \/ shutdown_event)

\* C37: a call of stop() made while the worker is running eventually returns.
C37_StopEventuallyReturns ==
    (stopping /\ worker_task = "running") ~> ~stopping

\* C38: whatever the priorities and timestamps of the requests in the queue,
\* an enqueue call that inserts its request into the queue goes on to save
\* the request's row: the insertion raises no error.
C38_InsertNeverRaises ==
    [][\A id \in Ids :
          (/\ id = next_id
           /\ next_id' = next_id + 1
           /\ \E i \in DOMAIN queue' : queue'[i].req.id = id) =>
              id \in DOMAIN db']_vars

\* C39: the breaker leaves OPEN only for HALF_OPEN, and only once the
\* cooldown has passed since the last failure; no step takes an OPEN breaker
\* to CLOSED or lowers failure_count while the breaker stays OPEN.
C39_OpenLeavesOnlyToHalfOpen ==
    [][breaker.state = "OPEN" =>
          /\ breaker'.state \in {"OPEN", "HALF_OPEN"}
          /\ breaker'.state = "HALF_OPEN" =>
                 now - breaker.last_failure_time[1] >= breaker.timeout
          /\ breaker'.state = "OPEN" =>
                 breaker'.failure_count >= breaker.failure_count]_vars

\* The number of invocations of request r's workload that raised.
RaisedCount(r) ==
    Cardinality({i \in DOMAIN r.outcomes : r.outcomes[i] = "raised"})

\* C40: the retry_count of every request of this process (not reloaded from
\* a row) is the number of invocations of its workload that raised.
C40_RetryCountIsRaisedInvocations ==
    \A r \in Requests :
        (r.outcomes = <<>> \/ r.outcomes[1] # "loaded") =>
            r.retry_count = RaisedCount(r)

====
